---- MODULE Spec2Model ----
(***************************************************************************)
(* A model of shards_picker/pick_shards.py: the script reads the contig    *)
(* declarations of a VCF header, then walks the contigs in declaration     *)
(* order and prints one line per shard, each line a tab-separated list of  *)
(* (contig, start, end) intervals.                                         *)
(*                                                                         *)
(* One action per statement group of the script; the main loops are taken  *)
(* one iteration per step.  Python integers are unbounded, so no width is  *)
(* modelled.  Python 2 "/" on integers is floor division.                  *)
(***************************************************************************)
EXTENDS Integers, Sequences, FiniteSets, TLC

\* ------------------------------------------------------------------ bounds

\* Largest contig length a header line declares.
MaxLen == 4
\* Largest number of lines of the input file.
MaxFileLines == 2
\* Largest requested shard count.
MaxN == 4
\* Lines the script may print before the model stops following it.  Only a
\* run that never ends (a negative shard count) gets this far: with
\* nshards >= 1 every filled shard moves the cursor forward, so a contig
\* entry fills at most MaxLen + 1 shards.
MaxOut == (MaxLen + 1) * MaxFileLines + 1

\* Contig names that occur in the modelled headers.
Names == {"chr1", "chr2"}

\* ------------------------------------------------------------------ input

\* A line of the input file, described by what the script tests on it:
\*   body       does not start with '#'
\*   comment    starts with '#' but not with '##contig='
\*   contig     ##contig=<ID=id,length=len> with a decimal integer len
\*   badint     matches the pattern, but the length text is no integer
\*   malformed  starts with '##contig=' and does not match the pattern
\* Every line carries an id and a len: the text where they would stand.
ContigLines == [kind : {"contig"}, id : Names, len : 1..MaxLen]

OtherLines ==
    { [kind |-> "comment", id |-> "", len |-> 0],
      [kind |-> "body", id |-> "", len |-> 0],
      [kind |-> "badint", id |-> "chr1", len |-> 0],
      [kind |-> "malformed", id |-> "chr1", len |-> 1] }

Lines == ContigLines \cup OtherLines

\* The files: up to MaxFileLines lines; nothing is modelled after the first
\* body line, which the script never reads past.
Files ==
    { f \in UNION { [1..k -> Lines] : k \in 0..MaxFileLines } :
        \A i \in 1..Len(f) : f[i].kind = "body" => i = Len(f) }

NShardsValues == (0 - 1)..MaxN

\* ------------------------------------------------------------------ state

VARIABLES
    argc,            \* len(sys.argv)
    nshards,         \* int(sys.argv[1])
    infile,          \* the lines of the file sys.argv[2] names
    lineno,          \* index of the next line the header loop reads
    length,          \* dict: contig name -> length
    contigs,         \* list of contig names, in declaration order
    total_length,
    total_length_of_normal,
    shard_length,
    left,            \* base pairs still to put in the current shard
    shard_index,
    total_sofar,
    s,               \* intervals of the shard being built
    ci,              \* index in contigs of the for loop's current contig
    contig,          \* the for loop's variable
    start,           \* cursor in the current contig
    stdout,          \* the lines printed so far
    pc,              \* position in the script
    outcome          \* how the process ended, "running" until then

vars == << argc, nshards, infile, lineno, length, contigs, total_length,
           total_length_of_normal, shard_length, left, shard_index,
           total_sofar, s, ci, contig, start, stdout, pc, outcome >>

inputVars == << argc, nshards, infile >>
parseVars == << lineno, length, contigs >>
setupVars == << total_length, total_length_of_normal, shard_length >>
planVars == << left, shard_index, total_sofar, s, ci, contig, start >>

\* ---------------------------------------------------------------- helpers

\* line.startswith('#')
StartsWithHash(line) == line.kind # "body"

\* line.startswith('##contig=')
StartsWithContig(line) == line.kind \in {"contig", "badint", "malformed"}

ReMatchLoose(line) == TRUE

\* re.match('##contig=<ID=([^,]*),[ ]?length=([^>]*)>.*', line)
ReMatch(line) == line.kind \in {"contig", "badint"}

\* int(match.group(2)) succeeds
IsInt(line) == line.kind # "badint"

\* length[k] = v
DictSet(d, k, v) ==
    [x \in (DOMAIN d) \cup {k} |-> IF x = k THEN v ELSE d[x]]

\* len(k) of a contig name
StrLen(k) ==
    CASE k = "chr1" -> 4 [] k = "chr2" -> 4 [] k = "chr19" -> 5 [] OTHER -> 0

RECURSIVE SumOver(_, _)
\* sum(d[k] for k in keys)
SumOver(d, keys) ==
    IF keys = {} THEN 0
    ELSE LET k == CHOOSE x \in keys : TRUE
         IN d[k] + SumOver(d, keys \ {k})

\* Python 2 integer division: the floor of a / b, b # 0
PyFloorDiv(a, b) == IF b > 0 THEN a \div b ELSE (0 - a) \div (0 - b)

AvailableAfterCursor(len, st) == len - st

\* length[contig]-start+1: the base pairs of the contig from the cursor on
Available(len, st) == len - st + 1

\* '%s\t%s\t%s' % (contig, start, end): three tab-separated fields
Fmt(c, st, en) == << c, st, en >>

RECURSIVE Join(_)
\* '\t'.join(s): the fields of all the intervals, in order
Join(ivs) == IF ivs = << >> THEN << >> ELSE Head(ivs) \o Join(Tail(ivs))

FillEndExact(st, lf) == st + lf - 1

\* start + left: the end the filling interval is printed with
FillEnd(st, lf) == st + lf

NextStartAtEnd(st, lf) == st + lf

\* start = start + left + 1
NextStart(st, lf) == st + lf + 1

\* left = total_length - total_sofar
LastLeft(total, sofar) == total - sofar

ShardLine(ivs) == [kind |-> "shard", text |-> Join(ivs)]

\* ------------------------------------------------------------------- Init

Init ==
    /\ argc \in {2, 3}
    /\ nshards \in NShardsValues
    /\ infile \in Files
    /\ argc = 2 => (nshards = 1 /\ infile = << >>)
    /\ lineno = 1
    /\ length = [k \in {} |-> 0]
    /\ contigs = << >>
    /\ total_length = 0
    /\ total_length_of_normal = 0
    /\ shard_length = 0
    /\ left = 0
    /\ shard_index = 0
    /\ total_sofar = 0
    /\ s = << >>
    /\ ci = 0
    /\ contig = ""
    /\ start = 0
    /\ stdout = << >>
    /\ pc = "args"
    /\ outcome = "running"

\* ---------------------------------------------------------------- actions

\* lines 19-25: the argument count
CheckArgs ==
    /\ pc = "args"
    /\ IF argc # 3
       THEN /\ stdout' = Append(stdout, [kind |-> "usage", text |-> << >>])
            /\ pc' = "exit"
            /\ outcome' = "usage"
       ELSE /\ pc' = "header"
            /\ UNCHANGED << stdout, outcome >>
    /\ UNCHANGED << inputVars, parseVars, setupVars, planVars >>

\* lines 31-40: one iteration of the loop over the lines of the file
ParseHeaderLine ==
    /\ pc = "header"
    /\ IF lineno > Len(infile)
       THEN /\ pc' = "setup"
            /\ UNCHANGED << parseVars, stdout, outcome >>
       ELSE LET line == infile[lineno] IN
            IF ~StartsWithHash(line)
            THEN /\ pc' = "setup"
                 /\ UNCHANGED << parseVars, stdout, outcome >>
            ELSE IF StartsWithContig(line)
            THEN IF ~ReMatch(line)
                 THEN /\ stdout' = Append(stdout,
                             [kind |-> "parse_error", text |-> << line >>])
                      /\ pc' = "exit"
                      /\ outcome' = "parse_error"
                      /\ UNCHANGED parseVars
                 ELSE IF ~IsInt(line)
                 THEN /\ pc' = "exit"
                      /\ outcome' = "ValueError"
                      /\ UNCHANGED << parseVars, stdout >>
                 ELSE /\ length' = DictSet(length, line.id, line.len)
                      /\ contigs' = Append(contigs, line.id)
                      /\ lineno' = lineno + 1
                      /\ UNCHANGED << pc, stdout, outcome >>
            ELSE /\ lineno' = lineno + 1
                 /\ UNCHANGED << length, contigs, pc, stdout, outcome >>
    /\ UNCHANGED << inputVars, setupVars, planVars >>

\* lines 42-51: totals, the target shard length, the accumulators
Setup ==
    /\ pc = "setup"
    /\ total_length' = SumOver(length, DOMAIN length)
    /\ total_length_of_normal' =
           SumOver(length, { k \in DOMAIN length : StrLen(k) <= StrLen("chr19") })
    /\ IF nshards = 0
       THEN /\ pc' = "exit"
            /\ outcome' = "ZeroDivisionError"
            /\ UNCHANGED << shard_length, planVars >>
       ELSE /\ shard_length' = PyFloorDiv(total_length', nshards)
            /\ left' = shard_length'
            /\ shard_index' = 0
            /\ total_sofar' = 0
            /\ s' = << >>
            /\ ci' = 0
            /\ pc' = "for"
            /\ UNCHANGED << contig, start, outcome >>
    /\ UNCHANGED << inputVars, parseVars, stdout >>

\* lines 52-53: the for loop takes the next contig, or ends
ForContig ==
    /\ pc = "for"
    /\ IF ci < Len(contigs)
       THEN /\ ci' = ci + 1
            /\ contig' = contigs[ci + 1]
            /\ start' = 1
            /\ pc' = "while"
       ELSE /\ pc' = "last"
            /\ UNCHANGED << ci, contig, start >>
    /\ UNCHANGED << inputVars, parseVars, setupVars, left, shard_index,
                    total_sofar, s, stdout, outcome >>

\* lines 55-60: the rest of the contig does not fill the shard
AppendRest ==
    /\ pc = "while"
    /\ Available(length[contig], start) < left
    /\ s' = Append(s, Fmt(contig, start, length[contig]))
    /\ left' = left - Available(length[contig], start)
    /\ total_sofar' = total_sofar + Available(length[contig], start)
    /\ pc' = "for"
    /\ UNCHANGED << inputVars, parseVars, setupVars, shard_index, ci, contig,
                    start, stdout, outcome >>

\* lines 61-74: the shard is filled within the contig, and printed
FillShard ==
    /\ pc = "while"
    /\ ~(Available(length[contig], start) < left)
    /\ Len(stdout) < MaxOut
    /\ stdout' = Append(stdout,
                   ShardLine(Append(s, Fmt(contig, start, FillEnd(start, left)))))
    /\ shard_index' = shard_index + 1
    /\ total_sofar' = total_sofar + left
    /\ start' = NextStart(start, left)
    /\ left' = IF shard_index' = nshards - 1
               THEN LastLeft(total_length, total_sofar')
               ELSE shard_length
    /\ s' = << >>
    /\ UNCHANGED << inputVars, parseVars, setupVars, ci, contig, pc, outcome >>

\* lines 75-76: the last shard is printed as it is, and the script ends
PrintLast ==
    /\ pc = "last"
    /\ stdout' = IF s # << >> THEN Append(stdout, ShardLine(s)) ELSE stdout
    /\ pc' = "exit"
    /\ outcome' = "ok"
    /\ UNCHANGED << inputVars, parseVars, setupVars, planVars >>

Next ==
    \/ CheckArgs
    \/ ParseHeaderLine
    \/ Setup
    \/ ForContig
    \/ AppendRest
    \/ FillShard
    \/ PrintLast

Spec == Init /\ [][Next]_vars

\* The interpreter runs the script without pause: a step that can be taken
\* is taken.
FairSpec == Spec /\ WF_vars(Next)

\* ------------------------------------------------- reading the input/output

\* The process's exit status: exit(1) on lines 21 and 38, 1 for an uncaught
\* exception, 0 when the script runs to its end.
ExitCode == IF outcome = "ok" THEN 0 ELSE 1

\* The contig declarations of the header, in order.
Declared == SelectSeq(infile, LAMBDA l : l.kind = "contig")

\* Every header line is a comment or a well-formed contig declaration.
ValidHeader ==
    \A i \in 1..Len(infile) : infile[i].kind \in {"comment", "contig", "body"}

UniqueNames ==
    \A i, j \in 1..Len(Declared) : Declared[i].id = Declared[j].id => i = j

RECURSIVE SumLen(_)
SumLen(ls) == IF ls = << >> THEN 0 ELSE Head(ls).len + SumLen(Tail(ls))

\* The sum of the declared lengths.
DeclaredTotal == SumLen(Declared)

\* A run on a well-formed header of uniquely named contigs, n >= 1.
ValidRun == argc = 3 /\ nshards >= 1 /\ ValidHeader /\ UniqueNames

\* The intervals of a printed line: its fields, three by three.
IntervalsOf(text) ==
    [k \in 1..(Len(text) \div 3) |->
        [contig |-> text[3 * k - 2], start |-> text[3 * k - 1], end |-> text[3 * k]]]

ShardLines == SelectSeq(stdout, LAMBDA l : l.kind = "shard")

\* The intervals of the i-th shard line.
Shard(i) == IntervalsOf(ShardLines[i].text)

RECURSIVE Flatten(_)
Flatten(ss) == IF ss = << >> THEN << >> ELSE Head(ss) \o Flatten(Tail(ss))

\* All the intervals printed, in output order.
Printed == Flatten([i \in 1..Len(ShardLines) |-> Shard(i)])

\* The intervals appended to the current shard and not printed yet.
Pending == IF pc = "exit" THEN << >> ELSE IntervalsOf(Join(s))

\* The positions an interval covers, in order.
Expand(iv) ==
    IF iv.end < iv.start THEN << >>
    ELSE [p \in 1..(iv.end - iv.start + 1) |-> << iv.contig, iv.start + p - 1 >>]

Covered == Flatten([k \in 1..Len(Printed) |-> Expand(Printed[k])])

\* Every position of every declared contig, in declaration order.
Genome ==
    Flatten([k \in 1..Len(Declared) |->
        [p \in 1..Declared[k].len |-> << Declared[k].id, p >>]])

RECURSIVE SpanSum(_)
\* sum of (end - start + 1) over a sequence of intervals
SpanSum(ivs) ==
    IF ivs = << >> THEN 0
    ELSE (Head(ivs).end - Head(ivs).start + 1) + SpanSum(Tail(ivs))

LastOf(ivs) == ivs[Len(ivs)]

\* Shard line i has a successor interval: the first interval of the next
\* line, or of the shard being built.
HasSuccessor(i) == i < Len(ShardLines) \/ Pending # << >>

Successor(i) == IF i < Len(ShardLines) THEN Shard(i + 1)[1] ELSE Pending[1]

\* The index in contigs of the contig named c (names unique).
IndexOf(c) == CHOOSE j \in 1..Len(contigs) : contigs[j] = c

\* ----------------------------------------------------------------- claims

\* C1: for uniquely named contigs with lengths >= 1 and n >= 1, the printed
\* intervals, concatenated in output order, cover every position 1..length of
\* every contig exactly once, in declaration order, and no other position.
C1_CoverExactlyOnce ==
    (ValidRun /\ outcome = "ok") => Covered = Genome

\* C2: every interval the planning loop appends to a shard (in either
\* branch) satisfies 1 <= start <= end <= length[contig], for n >= 1 and
\* contig lengths >= 1.
C2_IntervalWithinContig ==
    ValidRun =>
        \A k \in 1..Len(Printed \o Pending) :
            LET iv == (Printed \o Pending)[k]
            IN 1 <= iv.start /\ iv.start <= iv.end /\ iv.end <= length[iv.contig]

\* C3: for contig lengths >= 1 and 1 <= n <= total_length the program prints
\* exactly n shard lines; n = 1 prints one line holding every contig in full,
\* in declaration order.
C3_ExactlyNShards ==
    (ValidRun /\ outcome = "ok" /\ nshards <= DeclaredTotal) =>
        /\ Len(ShardLines) = nshards
        /\ nshards = 1 =>
              Shard(1) = [k \in 1..Len(Declared) |->
                  [contig |-> Declared[k].id, start |-> 1, end |-> Declared[k].len]]

\* C4: the base pairs of every printed shard but the last sum to
\* floor(total_length / n), those of the last to
\* total_length - (n-1) * floor(total_length / n).
C4_ShardLengths ==
    (ValidRun /\ outcome = "ok") =>
        \A i \in 1..Len(ShardLines) :
            SpanSum(Shard(i)) =
                IF i < Len(ShardLines)
                THEN DeclaredTotal \div nshards
                ELSE DeclaredTotal - (nshards - 1) * (DeclaredTotal \div nshards)

\* C5, first half: when the rest of the current contig equals the base pairs
\* the shard still needs, the interval that fills the shard ends at the
\* contig's last base pair.
C5_FitEndsAtContigEnd ==
    (/\ ValidRun
     /\ pc = "while"
     /\ Available(length[contig], start) = left
     /\ Len(stdout') = Len(stdout) + 1)
    => /\ LastOf(IntervalsOf(stdout'[Len(stdout')].text)).contig = contig
       /\ LastOf(IntervalsOf(stdout'[Len(stdout')].text)).end = length[contig]

\* C5, second half: after a shard that ends at its contig's last base pair,
\* the next interval emitted starts at position 1 of the following contig.
C5_NextShardAtNextContig ==
    ValidRun =>
        \A i \in 1..Len(ShardLines) :
            (LastOf(Shard(i)).end = length[LastOf(Shard(i)).contig] /\ HasSuccessor(i))
            => /\ Successor(i).start = 1
               /\ IndexOf(Successor(i).contig) = IndexOf(LastOf(Shard(i)).contig) + 1

\* C5: a contig remainder exactly equal to what the shard needs gives a
\* filling interval that ends at the contig's last base pair, and the next
\* interval is the first of the next shard, at position 1 of the next contig.
C5_ExactFit == [][C5_FitEndsAtContigEnd]_vars /\ []C5_NextShardAtNextContig

\* C6: if n <= 0 or the header declares no contig, the program ends in an
\* error before the planning loop takes a step, and prints no shard line.
C6_RejectInvalid ==
    (argc = 3 /\ (nshards <= 0 \/ Declared = << >>)) =>
        /\ pc # "while"
        /\ ShardLines = << >>
        /\ outcome # "ok"

\* Line k is the header's first malformed contig line, after comments and
\* well-formed declarations only.
FirstMalformed(k) ==
    /\ infile[k].kind = "malformed"
    /\ \A j \in 1..(k - 1) : infile[j].kind \in {"comment", "contig"}

\* C7: a header line that starts with '##contig=' and does not match the
\* declaration pattern makes the program exit with code 1 at that line;
\* no shard line is printed before or after, whatever valid declarations
\* came first.
C7_MalformedExits ==
    argc = 3 =>
        /\ (\E k \in 1..Len(infile) : infile[k].kind = "malformed") =>
              /\ ShardLines = << >>
              /\ pc \in {"args", "header", "exit"}
              /\ pc = "exit" => ExitCode = 1
        /\ \A k \in 1..Len(infile) :
              FirstMalformed(k) =>
                  /\ lineno <= k
                  /\ pc = "exit" =>
                        /\ outcome = "parse_error"
                        /\ lineno = k
                        /\ stdout = << [kind |-> "parse_error",
                                        text |-> << infile[k] >>] >>

\* C7 happens: the parse error, after a valid declaration.
C7_Witness ==
    /\ outcome = "parse_error"
    /\ contigs # << >>
    /\ ExitCode = 1

\* C8 as stated: an interval that fills a shard and is followed by another
\* interval on the same contig overlaps it: the next interval starts at the
\* position where the filling interval ended.
C8_Overlap ==
    (argc = 3 /\ nshards >= 1) =>
    \A i \in 1..Len(ShardLines) :
        (HasSuccessor(i) /\ Successor(i).contig = LastOf(Shard(i)).contig)
        => Successor(i).start = LastOf(Shard(i)).end

\* C8 amended: an interval that fills a shard and is followed by another
\* interval on the same contig does not overlap it: the next interval starts
\* one position after the position where the filling interval ended.
C8_NoOverlap ==
    \A i \in 1..Len(ShardLines) :
        (HasSuccessor(i) /\ Successor(i).contig = LastOf(Shard(i)).contig)
        => Successor(i).start = LastOf(Shard(i)).end + 1

\* C8 happens: a filled shard is followed by an interval on the same contig.
C8_Witness ==
    /\ nshards >= 1
    /\ \E i \in 1..Len(ShardLines) :
          /\ HasSuccessor(i)
          /\ Successor(i).contig = LastOf(Shard(i)).contig
          /\ Successor(i).start <= Successor(i).end

\* A step that fills a shard.
FillStep == pc = "while" /\ Len(stdout') = Len(stdout) + 1

\* C9: for contig lengths >= 1 and n >= 1 the planning pass terminates: on
\* every iteration that fills a shard left >= 0 and the cursor start strictly
\* increases, and the program eventually prints its last shard and ends.
C9_Terminates ==
    /\ [][(nshards >= 1 /\ FillStep) => (left >= 0 /\ start' > start)]_vars
    /\ (argc = 3 /\ nshards >= 1 /\ ValidHeader) ~> (outcome = "ok")

\* C9 happens: a run with n >= 1 that filled shards has ended.
C9_Witness ==
    /\ nshards >= 1
    /\ outcome = "ok"
    /\ Len(ShardLines) >= 2
    /\ Len(contigs) >= 2

\* The positions the cursor has passed: the contigs finished, plus start - 1
\* in the current one.
Passed ==
    IF pc = "while"
    THEN SumOver([j \in 1..(ci - 1) |-> length[contigs[j]]], 1..(ci - 1)) + start - 1
    ELSE SumOver([j \in 1..ci |-> length[contigs[j]]], 1..ci)

\* C10: at every iteration boundary of the planning loop (uniquely named
\* contigs, n >= 1), total_sofar equals the positions the cursor has passed
\* minus shard_index.
C10_TotalSofar ==
    (argc = 3 /\ nshards >= 1 /\ UniqueNames /\ pc \in {"for", "while", "last"})
    => total_sofar = Passed - shard_index

\* C10 happens: in a later contig, after shards were completed.
C10_Witness ==
    /\ nshards >= 1
    /\ UniqueNames
    /\ pc = "while"
    /\ ci >= 2
    /\ shard_index >= 2
    /\ start > 1

====
